---- MODULE Spec2Model ----
(***************************************************************************)
(* Model of the merge run of src/wiki_spark.py (run_spark_merge_logic) as  *)
(* driven by src/main_cli.py (merge_command_handler).                      *)
(*                                                                         *)
(* Strings are sequences of one-character strings; the SQL NULL of a       *)
(* DataFrame column is the value NULL.  Column predicates follow Spark's   *)
(* three-valued logic ("T", "F", "N").  A DataFrame is a sequence of rows. *)
(***************************************************************************)
EXTENDS Integers, Sequences, FiniteSets, TLC

VARIABLES
    spark_merge_available,   \* main_cli.py: import of wiki_spark succeeded
    nndb_exists,             \* os.path.exists(nndb_path)
    wiki_exists,             \* os.path.exists(wiki_dump_path)
    sink_writable,           \* the output path can be written (os.rename succeeds)
    fault,                   \* the step of this run at which the environment raises
    escapedStringLiterals,   \* spark.sql.parser.escapedStringLiterals of the session
    columns,                 \* nndb_df.columns besides Name
    nndb,                    \* rows of the reference TSV
    corpus,                  \* <page> elements of the dump
    order,                   \* the order in which the partitions deliver the pages
    pc,                      \* position in merge_command_handler / run_spark_merge_logic
    spark,                   \* the local variable spark: "None", "running", "stopped"
    total_nndb,
    nndb_names_df,
    wiki_df,
    matched_count,
    joined_df,               \* joined_df after line 204
    merged_df,               \* joined_df after line 284/293
    total_fields_updated,
    output_temp,             \* directory output_temp: "absent", "partial", "complete", "emptied"
    output_file,             \* content at output_path
    publish_count,           \* renames onto output_path made by this run
    stages,                  \* pipeline stages that have executed
    raised,                  \* an exception is being handled
    result,                  \* return value of run_spark_merge_logic
    exit_code                \* exit status of the merge command

vars == <<spark_merge_available, nndb_exists, wiki_exists, sink_writable, fault,
          escapedStringLiterals, columns, nndb, corpus, order, pc, spark, total_nndb,
          nndb_names_df, wiki_df, matched_count, joined_df, merged_df,
          total_fields_updated, output_temp, output_file, publish_count, stages,
          raised, result, exit_code>>

envVars == <<spark_merge_available, nndb_exists, wiki_exists, sink_writable, fault,
             escapedStringLiterals, columns, nndb, corpus, order>>

(***************************************************************************)
(* Bounds of the explored inputs.                                          *)
(***************************************************************************)
MaxRefs == 2
MaxArticles == 2
MaxRawLen == 6

(***************************************************************************)
(* Strings and SQL values.                                                 *)
(***************************************************************************)
NULL == <<"NULL">>
EmptyStr == <<>>
Digits == {"0", "1", "2", "3", "4", "5", "6", "7", "8", "9"}

Min(S) == CHOOSE x \in S : \A y \in S : x <= y

RECURSIVE SeqsUpTo(_, _)
SeqsUpTo(S, n) ==
    IF n = 0 THEN {<<>>}
    ELSE LET shorter == SeqsUpTo(S, n - 1)
         IN shorter \cup {Append(s, x) : s \in {t \in shorter : Len(t) = n - 1}, x \in S}

\* Spark trim(): strips the space character from both ends; NULL stays NULL.
Trim(s) ==
    IF s = NULL THEN NULL
    ELSE LET keep == {i \in 1..Len(s) : s[i] # " "}
         IN IF keep = {} THEN EmptyStr
            ELSE SubSeq(s, Min(keep), CHOOSE j \in keep : \A k \in keep : k <= j)

\* Three-valued column logic.
And3(a, b) == IF a = "F" \/ b = "F" THEN "F" ELSE IF a = "N" \/ b = "N" THEN "N" ELSE "T"
Or3(a, b) == IF a = "T" \/ b = "T" THEN "T" ELSE IF a = "N" \/ b = "N" THEN "N" ELSE "F"
Eq3(a, b) == IF a = NULL \/ b = NULL THEN "N" ELSE IF a = b THEN "T" ELSE "F"
Ne3(a, b) == IF a = NULL \/ b = NULL THEN "N" ELSE IF a = b THEN "F" ELSE "T"
IsNull3(a) == IF a = NULL THEN "T" ELSE "F"
IsNotNull3(a) == IF a = NULL THEN "F" ELSE "T"
\* when(cond, a).otherwise(b): a only where cond is true, b where it is false or NULL.
When(cond, a, b) == IF cond = "T" THEN a ELSE b

is_empty(c) == Or3(IsNull3(c), Eq3(Trim(c), EmptyStr))
is_not_empty(c) == And3(IsNotNull3(c), Ne3(Trim(c), EmptyStr))

(***************************************************************************)
(* Name resolution, lines 58-65.                                           *)
(***************************************************************************)
\* s[i..] matches \s*\([^)]+\)$
QualifierAt(s, i) ==
    \E j \in i..Len(s) :
        /\ \A k \in i..(j - 1) : s[k] = " "
        /\ s[j] = "("
        /\ s[Len(s)] = ")"
        /\ Len(s) - j >= 2
        /\ \A k \in (j + 1)..(Len(s) - 1) : s[k] # ")"

\* regexp_replace(Name, r"\s*\([^)]+\)$", ""): the leftmost match is removed.
StripQualifier(s) ==
    LET starts == {i \in 1..Len(s) : QualifierAt(s, i)}
    IN IF starts = {} THEN s ELSE SubSeq(s, 1, Min(starts) - 1)

JoinName(title) == Trim(StripQualifier(title))

AcceptedTitleAll(title) == TRUE
\* the disambiguation filter col("Name") == col("JoinName")
AcceptedTitle(title) == title = JoinName(title)

(***************************************************************************)
(* Birth date normalisation, lines 162-176.  The guard is a Column.rlike   *)
(* with the pattern \d{4}.*?\d{1,2}.*?\d{1,2}.  The three regexp_extract   *)
(* calls sit inside expr(): their patterns are SQL string literals, which  *)
(* the SQL parser unescapes unless spark.sql.parser.escapedStringLiterals  *)
(* is set, so \d reaches the regex engine as the letter d and \D as the    *)
(* letter D (esc = FALSE), or as the digit classes (esc = TRUE).           *)
(***************************************************************************)
IsD(c, esc) == IF esc THEN c \in Digits ELSE c = "d"
IsNonD(c, esc) == IF esc THEN c \notin Digits ELSE c = "D"

BornGuardYearOnly(raw) ==
    \E i \in 1..(Len(raw) - 3) : \A k \in i..(i + 3) : raw[k] \in Digits
\* birth_raw rlike \d{4}.*?\d{1,2}.*?\d{1,2}
BornGuard(raw) ==
    \E i \in 1..(Len(raw) - 3) :
        /\ \A k \in i..(i + 3) : raw[k] \in Digits
        /\ Cardinality({k \in (i + 4)..Len(raw) : raw[k] \in Digits}) >= 2

\* the text matched by a greedy \d{1,2} at position m
Group12(raw, m, esc) ==
    IF m + 1 <= Len(raw) /\ IsD(raw[m + 1], esc) THEN SubSeq(raw, m, m + 1)
    ELSE SubSeq(raw, m, m)

\* first position after the maximal run of \D starting at p
RunEnd(raw, p, esc) ==
    Min({q \in p..(Len(raw) + 1) : q = Len(raw) + 1 \/ ~IsNonD(raw[q], esc)})

FourAt(raw, i, esc) == i + 3 <= Len(raw) /\ \A k \in i..(i + 3) : IsD(raw[k], esc)

\* regexp_extract(birth_raw, '(\d{4})', 1)
ExtractYear(raw, esc) ==
    LET starts == {i \in 1..Len(raw) : FourAt(raw, i, esc)}
    IN IF starts = {} THEN EmptyStr ELSE SubSeq(raw, Min(starts), Min(starts) + 3)

\* \d{4}\D+(\d{1,2}) matches from i: position of the group, or 0
MonthPos(raw, i, esc) ==
    IF ~FourAt(raw, i, esc) THEN 0
    ELSE LET m == RunEnd(raw, i + 4, esc)
         IN IF m > i + 4 /\ m <= Len(raw) /\ IsD(raw[m], esc) THEN m ELSE 0

\* regexp_extract(birth_raw, '\d{4}\D+(\d{1,2})', 1)
ExtractMonth(raw, esc) ==
    LET starts == {i \in 1..Len(raw) : MonthPos(raw, i, esc) # 0}
    IN IF starts = {} THEN EmptyStr ELSE Group12(raw, MonthPos(raw, Min(starts), esc), esc)

\* \d{4}\D+\d{1,2}\D+(\d{1,2}) matches from i: position of the group, or 0
DayPos(raw, i, esc) ==
    LET m == MonthPos(raw, i, esc)
    IN IF m = 0 THEN 0
       ELSE LET p == m + Len(Group12(raw, m, esc))
                q == RunEnd(raw, p, esc)
            IN IF q > p /\ q <= Len(raw) /\ IsD(raw[q], esc) THEN q ELSE 0

\* regexp_extract(birth_raw, '\d{4}\D+\d{1,2}\D+(\d{1,2})', 1)
ExtractDay(raw, esc) ==
    LET starts == {i \in 1..Len(raw) : DayPos(raw, i, esc) # 0}
    IN IF starts = {} THEN EmptyStr ELSE Group12(raw, DayPos(raw, Min(starts), esc), esc)

\* lpad(x, 2, '0')
Lpad2(x) == IF Len(x) = 0 THEN <<"0", "0">> ELSE IF Len(x) = 1 THEN <<"0">> \o x ELSE SubSeq(x, 1, 2)

\* the column WikiBorn
WikiBorn(raw, esc) ==
    IF BornGuard(raw)
    THEN ExtractYear(raw, esc) \o <<"-">> \o Lpad2(ExtractMonth(raw, esc))
         \o <<"-">> \o Lpad2(ExtractDay(raw, esc))
    ELSE EmptyStr

(***************************************************************************)
(* Article filtering and field extraction, lines 51-198.  An article of    *)
(* the corpus carries its title, its namespace, and what the regular       *)
(* expressions of lines 78-186 find in its text: whether the text is       *)
(* present, whether it contains "{{Infobox" or "{{infobox", whether the    *)
(* infobox pattern matches in the intro, the raw birth_date value and the  *)
(* cleaned occupation, birthplace and first sentence.                      *)
(***************************************************************************)
\* lines 51-56
Eligible(a) == a.ns = 0 /\ a.page_text_present /\ a.has_infobox_token

RECURSIVE Distinct(_)
Distinct(names) ==
    IF names = <<>> THEN {} ELSE {Head(names)} \cup Distinct(Tail(names))

\* nndb_df.select(col("Name").alias("JoinName")).distinct(), line 68
NamesOf(table) == Distinct([i \in 1..Len(table) |-> table[i].Name])

RECURSIVE SelectRows(_, _, _)
\* the rows t[i] of t, in order, for which keep[i]
SelectRows(t, keep, i) ==
    IF i > Len(t) THEN <<>>
    ELSE (IF keep[i] THEN <<t[i]>> ELSE <<>>) \o SelectRows(t, keep, i + 1)

\* the pages in the order in which they are processed: the rows of a
\* DataFrame read in partitions and repartitioned (line 76) have no fixed order
Orders(n) == {p \in [1..n -> 1..n] : \A i, j \in 1..n : p[i] = p[j] => i = j}
ListedOrder(n) == [i \in 1..n |-> i]
Processed(pages, p) == [i \in 1..Len(pages) |-> pages[p[i]]]

\* lines 51-76: namespace, text and token filters, the disambiguation rule,
\* and the inner join with the distinct reference names
FilterArticles(pages, names) ==
    SelectRows(pages,
               [i \in 1..Len(pages) |->
                   /\ Eligible(pages[i])
                   /\ AcceptedTitle(pages[i].title)
                   /\ JoinName(pages[i].title) \in names],
               1)

\* lines 141-191: the selected columns of one article
ExtractRow(a, esc) ==
    [Name            |-> a.title,
     WikiDescription |-> a.WikiDescription,
     WikiBorn        |-> WikiBorn(a.birth_raw, esc),
     WikiOccupation  |-> a.WikiOccupation,
     WikiBirthplace  |-> a.WikiBirthplace]

\* line 193-198
HasAnyField(w) ==
    \/ w.WikiBorn # EmptyStr
    \/ w.WikiOccupation # EmptyStr
    \/ w.WikiBirthplace # EmptyStr
    \/ w.WikiDescription # EmptyStr

\* lines 78-198: infobox filter, extraction, and the non-empty filter
ExtractFields(pages, esc) ==
    LET found == SelectRows(pages, [i \in 1..Len(pages) |-> pages[i].infobox_found], 1)
        rows  == [i \in 1..Len(found) |-> ExtractRow(found[i], esc)]
    IN SelectRows(rows, [i \in 1..Len(rows) |-> HasAnyField(rows[i])], 1)

(***************************************************************************)
(* The left join of line 202 and the counter column of line 204.           *)
(***************************************************************************)
JoinedRow(r, w) ==
    [Name |-> r.Name, Born |-> r.Born, Occupation |-> r.Occupation,
     Birthplace |-> r.Birthplace, Description |-> r.Description,
     WikiDescription |-> w.WikiDescription, WikiBorn |-> w.WikiBorn,
     WikiOccupation |-> w.WikiOccupation, WikiBirthplace |-> w.WikiBirthplace,
     field_updated |-> 0]

NullExtraction ==
    [Name |-> NULL, WikiDescription |-> NULL, WikiBorn |-> NULL,
     WikiOccupation |-> NULL, WikiBirthplace |-> NULL]

\* the joined rows of one reference row
RowsForFirstSeen(r, wiki) ==
    LET hits == SelectRows(wiki, [j \in 1..Len(wiki) |-> wiki[j].Name = r.Name], 1)
    IN IF hits = <<>> THEN <<JoinedRow(r, NullExtraction)>>
       ELSE <<JoinedRow(r, hits[1])>>
RowsFor(r, wiki) ==
    LET hits == SelectRows(wiki, [j \in 1..Len(wiki) |-> wiki[j].Name = r.Name], 1)
    IN IF hits = <<>> THEN <<JoinedRow(r, NullExtraction)>>
       ELSE [j \in 1..Len(hits) |-> JoinedRow(r, hits[j])]

RECURSIVE LeftJoin(_, _, _)
\* nndb_df.join(broadcast(wiki_df), on="Name", how="left")
LeftJoin(table, wiki, i) ==
    IF i > Len(table) THEN <<>>
    ELSE RowsFor(table[i], wiki) \o LeftJoin(table, wiki, i + 1)

(***************************************************************************)
(* Field merging, lines 206-284.                                           *)
(***************************************************************************)
\* the condition of lines 216-218 (239, 260): the field counts as updated
CountsAsUpdateAnyRef(ref, wikiv) == And3(is_not_empty(wikiv), Ne3(ref, wikiv))
CountsAsUpdate(ref, wikiv) ==
    And3(And3(is_not_empty(wikiv), is_not_empty(ref)), Ne3(ref, wikiv))

\* the condition of lines 225-226 (246-247, 267-268): the extracted value is taken
TakesExtractedFillOnly(ref, wikiv) == is_empty(ref)
TakesExtractedAnyDiff(ref, wikiv) == Or3(is_empty(ref), Ne3(ref, wikiv))
TakesExtracted(ref, wikiv) ==
    Or3(is_empty(ref), And3(is_not_empty(wikiv), Ne3(ref, wikiv)))

\* one "if <field> in nndb_df.columns: ... else: rename" block of lines 212-273
MergeOverwritable(row, f, wf, cols) ==
    IF f \in cols
    THEN [row EXCEPT
            !["field_updated"] = When(CountsAsUpdate(row[f], row[wf]), @ + 1, @),
            ![f] = When(TakesExtracted(row[f], row[wf]), row[wf], row[f])]
    ELSE [row EXCEPT ![f] = row[wf]]

MergeDescriptionOverwriting(row, cols) ==
    IF "Description" \in cols
    THEN [row EXCEPT !.Description =
            When(TakesExtracted(row.Description, row.WikiDescription),
                 row.WikiDescription, row.Description)]
    ELSE [row EXCEPT !.Description = row.WikiDescription]
\* lines 275-284
MergeDescription(row, cols) ==
    IF "Description" \in cols
    THEN [row EXCEPT !.Description =
            When(is_empty(row.Description), row.WikiDescription, row.Description)]
    ELSE [row EXCEPT !.Description = row.WikiDescription]

\* lines 212-284 on one row
MergeRow(row, cols) ==
    MergeDescription(
        MergeOverwritable(
            MergeOverwritable(
                MergeOverwritable(row, "Born", "WikiBorn", cols),
                "Occupation", "WikiOccupation", cols),
            "Birthplace", "WikiBirthplace", cols),
        cols)

RECURSIVE SumUpdated(_, _)
SumUpdated(rows, i) ==
    IF i > Len(rows) THEN 0 ELSE rows[i].field_updated + SumUpdated(rows, i + 1)

\* joined_df.agg(_sum("field_updated")).collect()[0]["total"], line 286
TotalUpdated(rows) == IF rows = <<>> THEN "None" ELSE SumUpdated(rows, 1)

\* lines 291-293: the columns that remain
DropColumns(row) ==
    [Name |-> row.Name, Born |-> row.Born, Occupation |-> row.Occupation,
     Birthplace |-> row.Birthplace, Description |-> row.Description]

(***************************************************************************)
(* Inputs.                                                                 *)
(***************************************************************************)
\* the steps at which a statement can be made to raise, and "none"
Faults == {"none", "start_spark", "read_nndb", "extract", "merge",
           "write_temp", "remove_temp", "final_count"}

OptionalColumns == {"Born", "Occupation", "Birthplace", "Description"}

AdaLovelace == <<"A", "d", "a", " ", "L", "o", "v", "e", "l", "a", "c", "e">>
AdaLovelaceMathematician == <<"A", "d", "a", " ", "L", "o", "v", "e", "l", "a", "c", "e", " ", "(", "m", "a", "t", "h", "e", "m", "a", "t", "i", "c", "i", "a", "n", ")">>
JaneDoe == <<"J", "a", "n", "e", " ", "D", "o", "e">>

Blank == <<" ", " ">>
ValX == <<"x">>
ValY == <<"y">>
Date1 == <<"1", "9", "7", "5", "-", "0", "4", "-", "0", "3">>
DateZero == <<"-", "0", "0", "-", "0", "0">>

Raw12May1920 == <<"1", "2", " ", "M", "a", "y", " ", "1", "9", "2", "0", " ", "(", "a", "g", "e", " ", ".", ".", ".", ")">>
Raw3_1975_4 == <<"3", " ", "1", "9", "7", "5", " ", "4">>
Raw1920 == <<"1", "9", "2", "0">>
Raw1975_4_3 == <<"1", "9", "7", "5", " ", "4", " ", "3">>
Raw1920_05_12 == <<"1", "9", "2", "0", "-", "0", "5", "-", "1", "2">>
RawLetters == <<"1", "9", "2", "0", " ", "1", " ", "2", " ", "d", "d", "d", "d", "D", "d", "D", "d">>

RefRow(name, born, occ, place, descr) ==
    [Name |-> name, Born |-> born, Occupation |-> occ, Birthplace |-> place,
     Description |-> descr]

Article(title, ns, text, token, infobox, raw, occ, place, descr) ==
    [title |-> title, ns |-> ns, page_text_present |-> text,
     has_infobox_token |-> token, infobox_found |-> infobox, birth_raw |-> raw,
     WikiOccupation |-> occ, WikiBirthplace |-> place, WikiDescription |-> descr]

\* an article that passes every filter
Biography(title, raw, occ, place, descr) ==
    Article(title, 0, TRUE, TRUE, TRUE, raw, occ, place, descr)

\* the state of this run before merge_command_handler is entered
Start ==
    /\ pc = "cli"
    /\ spark = "None"
    /\ total_nndb = 0
    /\ nndb_names_df = {}
    /\ wiki_df = <<>>
    /\ matched_count = 0
    /\ joined_df = <<>>
    /\ merged_df = <<>>
    /\ total_fields_updated = "None"
    /\ output_temp = "absent"
    /\ publish_count = 0
    /\ stages = {}
    /\ raised = FALSE
    /\ result = "None"
    /\ exit_code = -1

NoOutput == [state |-> "absent", rows |-> <<>>]
StaleOutput == [state |-> "stale", rows |-> <<>>]

\* an environment in which every step succeeds
Nominal ==
    /\ spark_merge_available = TRUE
    /\ nndb_exists = TRUE
    /\ wiki_exists = TRUE
    /\ sink_writable = TRUE
    /\ fault = "none"
    /\ output_file = NoOutput

\* one reference row and its article, under every environment
AnyEnvironment ==
    /\ spark_merge_available \in BOOLEAN
    /\ nndb_exists \in BOOLEAN
    /\ wiki_exists \in BOOLEAN
    /\ sink_writable \in BOOLEAN
    /\ fault \in Faults
    /\ output_file \in {NoOutput, StaleOutput}
    /\ escapedStringLiterals \in BOOLEAN
    /\ columns = OptionalColumns
    /\ nndb \in {<<>>, <<RefRow(JaneDoe, Date1, ValX, NULL, NULL)>>}
    /\ corpus = <<Biography(JaneDoe, Raw1920_05_12, ValY, ValX, ValY)>>

\* reference tables and corpora of varied shape: repeated names, qualified
\* titles, repeated titles, articles that fail a filter
StructRefs ==
    {RefRow(n, f, f, f, f) : n \in {AdaLovelace, AdaLovelaceMathematician}, f \in {NULL, ValX}}

StructArticles ==
    {Biography(AdaLovelace, Raw1975_4_3, ValX, ValX, ValX),
     Biography(AdaLovelace, Raw1975_4_3, ValY, ValY, ValY),
     Biography(AdaLovelaceMathematician, Raw1975_4_3, ValX, ValX, ValX),
     Biography(JaneDoe, Raw1975_4_3, ValX, ValX, ValX)}

\* articles that one of the filters of lines 51-56, 90 and 193 removes, and
\* one that none removes
FilterArticleSet ==
    {Article(AdaLovelace, 1, TRUE, TRUE, TRUE, EmptyStr, ValX, ValX, ValX),
     Article(AdaLovelace, 0, FALSE, FALSE, FALSE, EmptyStr, EmptyStr, EmptyStr, EmptyStr),
     Article(AdaLovelace, 0, TRUE, FALSE, FALSE, EmptyStr, EmptyStr, EmptyStr, EmptyStr),
     Article(AdaLovelace, 0, TRUE, TRUE, FALSE, EmptyStr, EmptyStr, EmptyStr, EmptyStr),
     Biography(AdaLovelace, EmptyStr, EmptyStr, EmptyStr, EmptyStr),
     Biography(AdaLovelace, Raw1975_4_3, ValY, ValY, ValY)}

StructInputs ==
    /\ Nominal
    /\ escapedStringLiterals \in BOOLEAN
    /\ columns = OptionalColumns
    /\ \/ /\ nndb \in SeqsUpTo(StructRefs, MaxRefs)
          /\ corpus \in SeqsUpTo(StructArticles, MaxArticles)
       \/ /\ nndb = <<RefRow(AdaLovelace, NULL, ValX, ValX, NULL)>>
          /\ corpus \in SeqsUpTo(FilterArticleSet, MaxArticles)

Init == Start /\ (AnyEnvironment \/ StructInputs) /\ order = ListedOrder(Len(corpus))

\* corpora in which accepted articles share a title, under every order of
\* processing
OrderRefs ==
    {RefRow(AdaLovelace, Date1, ValX, NULL, ValX), RefRow(JaneDoe, NULL, NULL, ValY, NULL)}

OrderInputs ==
    /\ Nominal
    /\ escapedStringLiterals \in BOOLEAN
    /\ columns = OptionalColumns
    /\ nndb \in SeqsUpTo(OrderRefs, MaxRefs)
    /\ corpus \in SeqsUpTo(StructArticles, MaxArticles)

InitOrder == Start /\ (AnyEnvironment \/ OrderInputs) /\ order \in Orders(Len(corpus))

\* one reference row against at most one article, over every combination of
\* field values, and every set of reference columns
RefValues == {NULL, EmptyStr, Blank, ValX}
RefBornValues == {NULL, Blank, Date1, DateZero}
WikiValues == {EmptyStr, ValX, ValY}
BornRaws == {EmptyStr, Raw1975_4_3, Raw1920_05_12}

MergeInputs ==
    /\ Nominal
    /\ escapedStringLiterals \in BOOLEAN
    /\ \/ /\ columns = OptionalColumns
          /\ nndb \in {<<RefRow(JaneDoe, b, o, p, d)>> :
                          b \in RefBornValues, o \in RefValues, p \in RefValues,
                          d \in RefValues}
          /\ corpus \in {<<>>} \cup
                        {<<Biography(JaneDoe, r, o, p, d)>> :
                            r \in BornRaws, o \in WikiValues, p \in WikiValues,
                            d \in WikiValues}
       \/ /\ columns \in SUBSET OptionalColumns
          /\ nndb = <<[c \in {"Name"} \cup OptionalColumns |->
                          IF c = "Name" THEN JaneDoe
                          ELSE IF c \in columns THEN ValX ELSE NULL]>>
          /\ corpus \in {<<>>, <<Biography(JaneDoe, Raw1975_4_3, ValY, ValY, ValY)>>}

InitMerge == Start /\ (AnyEnvironment \/ MergeInputs) /\ order = ListedOrder(Len(corpus))

\* one article whose raw birth_date ranges over every short string
RawAlphabet == {"1", "2", " "}
RawInputs ==
    SeqsUpTo(RawAlphabet, MaxRawLen)
    \cup {Raw12May1920, Raw3_1975_4, Raw1920, Raw1975_4_3, Raw1920_05_12, RawLetters}

DateInputs ==
    /\ Nominal
    /\ escapedStringLiterals \in BOOLEAN
    /\ columns = OptionalColumns
    /\ nndb = <<RefRow(JaneDoe, NULL, ValX, NULL, NULL)>>
    /\ corpus \in {<<Biography(JaneDoe, r, ValX, EmptyStr, EmptyStr)>> : r \in RawInputs}

InitDate == Start /\ (AnyEnvironment \/ DateInputs) /\ order = ListedOrder(Len(corpus))

(***************************************************************************)
(* The run.  Spark transformations are lazy: the steps below end at the    *)
(* statements that execute (count, collect, write) or touch the file       *)
(* system.  fault names the step at which the environment makes such a     *)
(* statement raise in this run ("none": it never does).                    *)
(***************************************************************************)
\* merge_command_handler, main_cli.py lines 26-31
EnterHandler ==
    /\ pc = "cli"
    /\ IF spark_merge_available
       THEN pc' = "check_inputs" /\ UNCHANGED exit_code
       ELSE pc' = "exited" /\ exit_code' = 1
    /\ UNCHANGED <<envVars, spark, total_nndb, nndb_names_df, wiki_df, matched_count,
                   joined_df, merged_df, total_fields_updated, output_temp,
                   output_file, publish_count, stages, raised, result>>

\* lines 8-13: both early returns
CheckInputs ==
    /\ pc = "check_inputs"
    /\ IF nndb_exists /\ wiki_exists
       THEN pc' = "start_spark" /\ UNCHANGED result
       ELSE pc' = "returned" /\ result' = "False"
    /\ UNCHANGED <<envVars, spark, total_nndb, nndb_names_df, wiki_df, matched_count,
                   joined_df, merged_df, total_fields_updated, output_temp,
                   output_file, publish_count, stages, raised, exit_code>>

\* lines 15-33
StartSpark ==
    /\ pc = "start_spark"
    /\ IF fault = "start_spark"
       THEN pc' = "except" /\ raised' = TRUE /\ UNCHANGED <<spark, stages>>
       ELSE /\ pc' = "read_nndb"
            /\ spark' = "running"
            /\ stages' = stages \cup {"engine_start"}
            /\ UNCHANGED raised
    /\ UNCHANGED <<envVars, total_nndb, nndb_names_df, wiki_df, matched_count,
                   joined_df, merged_df, total_fields_updated, output_temp,
                   output_file, publish_count, result, exit_code>>

\* lines 35-41
ReadNNDB ==
    /\ pc = "read_nndb"
    /\ IF fault = "read_nndb"
       THEN pc' = "except" /\ raised' = TRUE
            /\ UNCHANGED <<total_nndb, nndb_names_df, stages>>
       ELSE /\ pc' = "filter_wiki"
            /\ total_nndb' = Len(nndb)
            /\ nndb_names_df' = NamesOf(nndb)
            /\ stages' = stages \cup {"read"}
            /\ UNCHANGED raised
    /\ UNCHANGED <<envVars, spark, wiki_df, matched_count, joined_df, merged_df,
                   total_fields_updated, output_temp, output_file, publish_count,
                   result, exit_code>>

\* lines 43-76
FilterWiki ==
    /\ pc = "filter_wiki"
    /\ pc' = "extract"
    /\ nndb_names_df' = NamesOf(nndb)
    /\ wiki_df' = FilterArticles(Processed(corpus, order), nndb_names_df')
    /\ UNCHANGED <<envVars, spark, total_nndb, matched_count, joined_df,
                   merged_df, total_fields_updated, output_temp, output_file,
                   publish_count, stages, raised, result, exit_code>>

\* lines 78-200
Extract ==
    /\ pc = "extract"
    /\ IF fault = "extract"
       THEN pc' = "except" /\ raised' = TRUE
            /\ UNCHANGED <<wiki_df, matched_count, stages>>
       ELSE /\ pc' = "join"
            /\ wiki_df' = ExtractFields(wiki_df, escapedStringLiterals)
            /\ matched_count' = Len(wiki_df')
            /\ stages' = stages \cup {"extract"}
            /\ UNCHANGED raised
    /\ UNCHANGED <<envVars, spark, total_nndb, nndb_names_df, joined_df, merged_df,
                   total_fields_updated, output_temp, output_file, publish_count,
                   result, exit_code>>

\* lines 201-204
Join ==
    /\ pc = "join"
    /\ pc' = "merge"
    /\ joined_df' = LeftJoin(nndb, wiki_df, 1)
    /\ stages' = stages \cup {"match"}
    /\ UNCHANGED <<envVars, spark, total_nndb, nndb_names_df, wiki_df, matched_count,
                   merged_df, total_fields_updated, output_temp, output_file,
                   publish_count, raised, result, exit_code>>

\* lines 206-286
MergeFields ==
    /\ pc = "merge"
    /\ IF fault = "merge"
       THEN pc' = "except" /\ raised' = TRUE
            /\ UNCHANGED <<merged_df, total_fields_updated, stages>>
       ELSE /\ pc' = "print_summary"
            /\ merged_df' = [i \in 1..Len(joined_df) |-> MergeRow(joined_df[i], columns)]
            /\ total_fields_updated' = TotalUpdated(merged_df')
            /\ stages' = stages \cup {"merge"}
            /\ UNCHANGED raised
    /\ UNCHANGED <<envVars, spark, total_nndb, nndb_names_df, wiki_df, matched_count,
                   joined_df, output_temp, output_file, publish_count, result,
                   exit_code>>

\* lines 288-293: the percentage divides by total_nndb
PrintSummary ==
    /\ pc = "print_summary"
    /\ IF total_nndb = 0
       THEN pc' = "except" /\ raised' = TRUE /\ UNCHANGED merged_df
       ELSE /\ pc' = "write_temp"
            /\ merged_df' = [i \in 1..Len(merged_df) |-> DropColumns(merged_df[i])]
            /\ UNCHANGED raised
    /\ UNCHANGED <<envVars, spark, total_nndb, nndb_names_df, wiki_df, matched_count,
                   joined_df, total_fields_updated, output_temp, output_file,
                   publish_count, stages, result, exit_code>>

\* lines 295-297
WriteTemp ==
    /\ pc = "write_temp"
    /\ IF fault = "write_temp"
       THEN pc' = "except" /\ raised' = TRUE /\ output_temp' = "partial"
       ELSE pc' = "publish" /\ output_temp' = "complete" /\ UNCHANGED raised
    /\ UNCHANGED <<envVars, spark, total_nndb, nndb_names_df, wiki_df, matched_count,
                   joined_df, merged_df, total_fields_updated, output_file,
                   publish_count, stages, result, exit_code>>

\* lines 299-300
Publish ==
    /\ pc = "publish"
    /\ IF ~sink_writable
       THEN pc' = "except" /\ raised' = TRUE
            /\ UNCHANGED <<output_temp, output_file, publish_count>>
       ELSE /\ pc' = "remove_temp"
            /\ output_file' = [state |-> "published", rows |-> merged_df]
            /\ publish_count' = publish_count + 1
            /\ output_temp' = "emptied"
            /\ UNCHANGED raised
    /\ UNCHANGED <<envVars, spark, total_nndb, nndb_names_df, wiki_df, matched_count,
                   joined_df, merged_df, total_fields_updated, stages, result,
                   exit_code>>

\* line 301
RemoveTemp ==
    /\ pc = "remove_temp"
    /\ IF fault = "remove_temp"
       THEN pc' = "except" /\ raised' = TRUE /\ UNCHANGED output_temp
       ELSE pc' = "final_count" /\ output_temp' = "absent" /\ UNCHANGED raised
    /\ UNCHANGED <<envVars, spark, total_nndb, nndb_names_df, wiki_df, matched_count,
                   joined_df, merged_df, total_fields_updated, output_file,
                   publish_count, stages, result, exit_code>>

\* lines 303-307
FinalCount ==
    /\ pc = "final_count"
    /\ IF fault = "final_count"
       THEN pc' = "except" /\ raised' = TRUE
       ELSE pc' = "finally" /\ UNCHANGED raised
    /\ UNCHANGED <<envVars, spark, total_nndb, nndb_names_df, wiki_df, matched_count,
                   joined_df, merged_df, total_fields_updated, output_temp,
                   output_file, publish_count, stages, result, exit_code>>

\* lines 309-314: either handler prints and returns False once finally has run
Except ==
    /\ pc = "except"
    /\ pc' = "finally"
    /\ UNCHANGED <<envVars, spark, total_nndb, nndb_names_df, wiki_df, matched_count,
                   joined_df, merged_df, total_fields_updated, output_temp,
                   output_file, publish_count, stages, raised, result, exit_code>>

\* lines 315-319
Finally ==
    /\ pc = "finally"
    /\ pc' = "return"
    /\ spark' = IF spark # "None" THEN "stopped" ELSE spark
    /\ UNCHANGED <<envVars, total_nndb, nndb_names_df, wiki_df, matched_count,
                   joined_df, merged_df, total_fields_updated, output_temp,
                   output_file, publish_count, stages, raised, result, exit_code>>

\* lines 311, 314, 320
Return ==
    /\ pc = "return"
    /\ pc' = "returned"
    /\ result' = IF raised THEN "False" ELSE "True"
    /\ UNCHANGED <<envVars, spark, total_nndb, nndb_names_df, wiki_df, matched_count,
                   joined_df, merged_df, total_fields_updated, output_temp,
                   output_file, publish_count, stages, raised, exit_code>>

\* merge_command_handler, main_cli.py lines 37-43
HandlerExit ==
    /\ pc = "returned"
    /\ pc' = "exited"
    /\ exit_code' = IF result = "True" THEN 0 ELSE 1
    /\ UNCHANGED <<envVars, spark, total_nndb, nndb_names_df, wiki_df, matched_count,
                   joined_df, merged_df, total_fields_updated, output_temp,
                   output_file, publish_count, stages, raised, result>>

Next ==
    \/ EnterHandler
    \/ CheckInputs
    \/ StartSpark
    \/ ReadNNDB
    \/ FilterWiki
    \/ Extract
    \/ Join
    \/ MergeFields
    \/ PrintSummary
    \/ WriteTemp
    \/ Publish
    \/ RemoveTemp
    \/ FinalCount
    \/ Except
    \/ Finally
    \/ Return
    \/ HandlerExit

Spec == Init /\ [][Next]_vars
SpecMerge == InitMerge /\ [][Next]_vars
SpecDate == InitDate /\ [][Next]_vars
SpecOrder == InitOrder /\ [][Next]_vars

(***************************************************************************)
(* Properties.                                                             *)
(***************************************************************************)
Overwritable == {"Born", "Occupation", "Birthplace"}
WikiOf(f) == "Wiki" \o f

\* a value that is present and is not made of spaces only
HasContent(v) == v # NULL /\ \E i \in 1..Len(v) : v[i] # " "
\* a value that is present and is not the empty string
IsNonEmptyString(v) == v # NULL /\ v # EmptyStr
\* the joined row found an article: the extracted columns are not NULL
Matched(row) == row.WikiDescription # NULL
\* reference and extracted value both have content and differ
Disagrees(row, f) ==
    HasContent(row[f]) /\ HasContent(row[WikiOf(f)]) /\ row[f] # row[WikiOf(f)]
\* the rows as merged, with the extracted columns and the counter still present
Merging == pc = "print_summary"

\* C1: the merge produces exactly one joined, and one merged, record per
\* reference record: none is dropped, none is emitted more than once.
C1_OneRecordPerReference ==
    /\ "match" \in stages => Len(joined_df) = Len(nndb)
    /\ "merge" \in stages => Len(merged_df) = Len(nndb)
    /\ output_file.state = "published" => Len(output_file.rows) = Len(nndb)

\* C2: where the reference value and the extracted value of Born, Occupation
\* or Birthplace both have content and differ, the merged field is the
\* extracted value, and the record's counter is the number of such fields,
\* judged on the reference values as read.
C2_OverwriteCounts ==
    Merging =>
        \A i \in 1..Len(joined_df) :
            /\ \A f \in Overwritable :
                  Disagrees(joined_df[i], f) => merged_df[i][f] = joined_df[i][WikiOf(f)]
            /\ merged_df[i].field_updated =
                  Cardinality({f \in Overwritable : Disagrees(joined_df[i], f)})

C2_Witness ==
    /\ Merging
    /\ Len(joined_df) = 1
    /\ \A f \in Overwritable : Disagrees(joined_df[1], f)
    /\ merged_df[1].field_updated = 3
    /\ merged_df[1].Born = joined_df[1].WikiBorn

\* C3: where the reference value of Born, Occupation or Birthplace is empty
\* and the matched article's value has content, the merged field is the
\* extracted value, and the fill is not counted: the counter never exceeds the
\* number of fields that were not such fills.
IsFill(row, f) == ~HasContent(row[f]) /\ HasContent(row[WikiOf(f)])

C3_FillNotCounted ==
    Merging =>
        \A i \in 1..Len(joined_df) :
            /\ \A f \in Overwritable :
                  IsFill(joined_df[i], f) => merged_df[i][f] = joined_df[i][WikiOf(f)]
            /\ merged_df[i].field_updated
                  <= Cardinality({f \in Overwritable : ~IsFill(joined_df[i], f)})

C3_Witness ==
    /\ Merging
    /\ Len(joined_df) = 1
    /\ \A f \in Overwritable : IsFill(joined_df[1], f)
    /\ joined_df[1].Occupation = Blank
    /\ merged_df[1].Occupation = joined_df[1].WikiOccupation
    /\ merged_df[1].field_updated = 0

\* C4 as stated: every reference value of Born, Occupation or Birthplace that
\* is a non-empty string, one made of spaces only included, is left unchanged
\* when the record has no article or the article's value is empty.
C4_NonEmptyKept ==
    Merging =>
        \A i \in 1..Len(joined_df) : \A f \in Overwritable :
            (IsNonEmptyString(joined_df[i][f]) /\ ~HasContent(joined_df[i][WikiOf(f)]))
                => merged_df[i][f] = joined_df[i][f]

\* C4 as amended: a reference value of Born, Occupation or Birthplace that has
\* content other than spaces is left unchanged when the record has no article
\* or the article's value is empty.
C4_ContentKept ==
    Merging =>
        \A i \in 1..Len(joined_df) : \A f \in Overwritable :
            (HasContent(joined_df[i][f]) /\ ~HasContent(joined_df[i][WikiOf(f)]))
                => merged_df[i][f] = joined_df[i][f]

C4_Witness ==
    /\ Merging
    /\ Len(joined_df) = 1
    /\ Matched(joined_df[1])
    /\ joined_df[1].Occupation = ValX
    /\ joined_df[1].WikiOccupation = EmptyStr
    /\ merged_df[1].Occupation = ValX

\* C5: a reference Description with content is never overwritten, whatever
\* the extracted description, and a change of Description is not counted: the
\* counter never exceeds the number of changed fields among Born, Occupation
\* and Birthplace.
C5_DescriptionKept ==
    Merging =>
        \A i \in 1..Len(joined_df) :
            /\ HasContent(joined_df[i].Description)
                  => merged_df[i].Description = joined_df[i].Description
            /\ merged_df[i].field_updated
                  <= Cardinality({f \in Overwritable : merged_df[i][f] # joined_df[i][f]})

C5_Witness ==
    /\ Merging
    /\ Len(joined_df) = 1
    /\ joined_df[1].Description = ValX
    /\ joined_df[1].WikiDescription = ValY
    /\ merged_df[1].Description = ValX
    /\ merged_df[1].field_updated = 0

\* C6: an article whose title differs from its join key supplies no field to
\* any reference record: every matched row has its extracted columns from an
\* article of the corpus whose title is unqualified and equals the row's Name.
SuppliedBy(row, a) ==
    /\ a.title = row.Name
    /\ row.WikiBorn = WikiBorn(a.birth_raw, escapedStringLiterals)
    /\ row.WikiOccupation = a.WikiOccupation
    /\ row.WikiBirthplace = a.WikiBirthplace
    /\ row.WikiDescription = a.WikiDescription

C6_QualifiedNeverSupplies ==
    "match" \in stages =>
        \A i \in 1..Len(joined_df) :
            Matched(joined_df[i]) =>
                \E k \in 1..Len(corpus) :
                    /\ JoinName(corpus[k].title) = corpus[k].title
                    /\ SuppliedBy(joined_df[i], corpus[k])

C6_Witness ==
    /\ "match" \in stages
    /\ corpus = <<Biography(AdaLovelaceMathematician, Raw1975_4_3, ValX, ValX, ValX),
                  Biography(AdaLovelace, Raw1975_4_3, ValY, ValY, ValY)>>
    /\ Len(joined_df) = 1
    /\ joined_df[1].Name = AdaLovelace
    /\ joined_df[1].WikiOccupation = ValY

\* the extraction of the single article of the corpus
Normalized(raw) ==
    /\ "extract" \in stages
    /\ Len(corpus) = 1
    /\ corpus[1].birth_raw = raw
    /\ Len(wiki_df) = 1

\* C7 as stated: "12 May 1920 (age ...)" normalizes to "1920-05-12",
\* "3 1975 4" to "1975-04-03", and "1920" to the empty string.
C7_DateExamples ==
    /\ Normalized(Raw12May1920) => wiki_df[1].WikiBorn = Raw1920_05_12
    /\ Normalized(Raw3_1975_4) => wiki_df[1].WikiBorn = Date1
    /\ Normalized(Raw1920) => wiki_df[1].WikiBorn = EmptyStr

\* C7 as amended: "12 May 1920 (age ...)", "3 1975 4" and "1920" all
\* normalize to the empty string.
C7_DateExamplesEmpty ==
    /\ Normalized(Raw12May1920) => wiki_df[1].WikiBorn = EmptyStr
    /\ Normalized(Raw3_1975_4) => wiki_df[1].WikiBorn = EmptyStr
    /\ Normalized(Raw1920) => wiki_df[1].WikiBorn = EmptyStr

C7_Witness == Normalized(Raw12May1920) /\ wiki_df[1].WikiBorn = EmptyStr

\* b is year-month-day for a 4-digit year of raw and the 1-2 digit numbers
\* that follow it in raw
IsDateOf(b, raw) ==
    \E i \in 1..Len(raw), m \in 1..Len(raw), d \in 1..Len(raw), ml \in 1..2, dl \in 1..2 :
        /\ i + 3 < m /\ m + ml <= d /\ d + dl - 1 <= Len(raw)
        /\ \A k \in (i..(i + 3)) \cup (m..(m + ml - 1)) \cup (d..(d + dl - 1)) :
              raw[k] \in Digits
        /\ b = SubSeq(raw, i, i + 3) \o <<"-">> \o Lpad2(SubSeq(raw, m, m + ml - 1))
               \o <<"-">> \o Lpad2(SubSeq(raw, d, d + dl - 1))

\* C8: the normalized birth date is the empty string or YYYY-MM-DD made of a
\* 4-digit year of the raw value and the zero-padded month and day numbers
\* that follow it; no partial date is emitted.
C8_IsoOrEmpty ==
    "extract" \in stages =>
        \A i \in 1..Len(wiki_df) :
            \E k \in 1..Len(corpus) :
                /\ corpus[k].title = wiki_df[i].Name
                /\ \/ wiki_df[i].WikiBorn = EmptyStr
                   \/ IsDateOf(wiki_df[i].WikiBorn, corpus[k].birth_raw)

\* C9: the output appears at the output path only by the rename of a
\* completely written temporary result; a run that returns False has put no
\* file at the output path, a run that returns True has put it there once.
C9_AllOrNothing ==
    /\ publish_count > 0 => output_file = [state |-> "published", rows |-> merged_df]
    /\ result = "False" => publish_count = 0
    /\ result = "True" => publish_count = 1

\* C10: a missing reference input, a missing corpus input or an unwritable
\* output sink ends the run with failure before any stage has executed.
C10_FatalBeforeStages ==
    (pc = "exited" /\ spark_merge_available
        /\ (~nndb_exists \/ ~wiki_exists \/ ~sink_writable))
        => (stages = {} /\ result = "False")

\* the two sequences hold the same rows the same number of times
SameCollection(a, b) ==
    /\ Len(a) = Len(b)
    /\ \A i \in 1..Len(a) :
          Cardinality({j \in 1..Len(a) : a[j] = a[i]})
              = Cardinality({j \in 1..Len(b) : b[j] = a[i]})

\* the merged rows when the pages are processed in the order of the corpus
MergedInListedOrder ==
    LET wiki == ExtractFields(FilterArticles(corpus, NamesOf(nndb)), escapedStringLiterals)
        rows == LeftJoin(nndb, wiki, 1)
    IN [i \in 1..Len(rows) |-> MergeRow(rows[i], columns)]

\* C11: whatever the order in which the articles are processed, accepted
\* articles of one title included, the merged records are the same collection
\* and the total update count is the same as for the order of the corpus; so
\* are the rows of the published output.
C11_OrderIndependent ==
    (Merging \/ publish_count > 0) =>
        LET listed == MergedInListedOrder
            output == [i \in 1..Len(listed) |-> DropColumns(listed[i])]
        IN /\ Merging =>
                 /\ SameCollection(merged_df, listed)
                 /\ total_fields_updated = TotalUpdated(listed)
           /\ publish_count > 0 => SameCollection(output_file.rows, output)

C11_Witness ==
    /\ Merging
    /\ order # ListedOrder(Len(corpus))
    /\ nndb = <<RefRow(AdaLovelace, Date1, ValX, NULL, ValX)>>
    /\ corpus = <<Biography(AdaLovelace, Raw1975_4_3, ValX, ValX, ValX),
                  Biography(AdaLovelace, Raw1975_4_3, ValY, ValY, ValY)>>
    /\ Len(merged_df) = 2
    /\ merged_df[1] # MergedInListedOrder[1]
    /\ total_fields_updated = 1

\* the reference records for which the extraction holds an article of their Name
PairedRecords ==
    {i \in 1..Len(nndb) : \E j \in 1..Len(wiki_df) : wiki_df[j].Name = nndb[i].Name}

\* C12: the matched count of the summary is the number of reference records
\* paired with an extraction and so does not exceed the number of reference
\* records; with existing inputs, a reference table of zero rows included, the
\* summary does not make the run fail.
C12_MatchedCount ==
    /\ "match" \in stages =>
          /\ matched_count = Cardinality(PairedRecords)
          /\ matched_count <= total_nndb
    /\ (fault = "none" /\ sink_writable) => ~raised
====
